---- MODULE Spec2Model ----
(***************************************************************************)
(* Model of src/main.py: an in-memory store of users (users_db), each with *)
(* a randomly generated car, served by four request handlers (create_user, *)
(* get_user, list_users, update_car_data) after a startup hook that seeds  *)
(* the store (startup_event -> prepopulate_user).                          *)
(*                                                                         *)
(* Representation.                                                         *)
(*  - A Python dict is an insertion-ordered sequence of <<key, value>>     *)
(*    entries with unique keys (DictHas, DictGet, DictSet, DictValues).    *)
(*  - A Python float is a fixed-point integer in thousandths (11.5 is      *)
(*    11500).  The two GPS literals need 13 decimals and are kept as the   *)
(*    decimal literal of the source, as a string.                          *)
(*  - The process random number generator is an outcome number n; every    *)
(*    random call site reads its own draw from it (choice, randint,        *)
(*    uniform, uuid4hex).  The outcomes explored are Seeds == 1..MaxSeed.  *)
(***************************************************************************)
EXTENDS Integers, Sequences, FiniteSets, TLC

VARIABLES
    users_db,       \* main.py:52  the store: insertion-ordered dict code -> UserData
    phase,          \* "loaded" (module imported) or "serving" (startup hook has run)
    response,       \* the response of the handler that completed last
    prev_response,  \* the response completed before that one (history)
    written,        \* history: who wrote the stored user / the stored car last
    tasks           \* in-flight update_car_data handlers (concurrent dispatch only)

vars == <<users_db, phase, response, prev_response, written, tasks>>

-----------------------------------------------------------------------------
(* Bounds of the exploration. *)

\* number of outcomes of the random number generator that are explored
MaxSeed == 2
\* number of request handlers dispatched concurrently (SpecConc)
MaxTasks == 3

Seeds == 1..MaxSeed
Tasks == 1..MaxTasks

\* path parameter {code} of the requests: the fixed code and two others
Codes == {"aaaaaa", "bbbbbb", "AAAAAA"}

-----------------------------------------------------------------------------
(* Python dict, insertion-ordered. *)

\* `k in d`
DictHas(d, k) == \E i \in 1..Len(d) : d[i][1] = k

\* `d[k]` for a present key
DictGet(d, k) == d[CHOOSE i \in 1..Len(d) : d[i][1] = k][2]

\* DictSet with the overwrite lost: every assignment adds an entry
DictSetAlwaysAppends(d, k, v) == Append(d, <<k, v>>)

\* `d[k] = v`: overwrite in place when present, append otherwise
DictSet(d, k, v) ==
    IF DictHas(d, k)
    THEN [i \in 1..Len(d) |-> IF d[i][1] = k THEN <<k, v>> ELSE d[i]]
    ELSE Append(d, <<k, v>>)

\* `list(d.values())`
DictValues(d) == [i \in 1..Len(d) |-> d[i][2]]

-----------------------------------------------------------------------------
(* The random number generator, read at outcome n. *)

\* resolution of the sample points of random.uniform
UniformGrid == 4

\* random.choice(seq)
choice(seq, n) == seq[(n % Len(seq)) + 1]

\* random.randint(a, b): an integer in a..b
randint(a, b, n) == a + (n % (b - a + 1))

\* random.uniform(a, b): a float in [a, b] (thousandths)
uniform(a, b, n) == a + (((b - a) * (n % (UniformGrid + 1))) \div UniformGrid)

hexdigits == <<"0", "1", "2", "3", "4", "5", "6", "7",
               "8", "9", "a", "b", "c", "d", "e", "f">>

\* uuid.uuid4().hex: 32 lower-case hexadecimal digits
uuid4hex(n) == [i \in 1..32 |-> hexdigits[((n * 7 + i * 5) % 16) + 1]]

\* str.upper() of one character of a hexadecimal string
upperchar(c) ==
    CASE c = "a" -> "A" [] c = "b" -> "B" [] c = "c" -> "C"
      [] c = "d" -> "D" [] c = "e" -> "E" [] c = "f" -> "F"
      [] OTHER -> c

\* str.upper()
upper(s) == [i \in 1..Len(s) |-> upperchar(s[i])]

\* the Python string made of the characters of s
RECURSIVE join(_)
join(s) == IF s = <<>> THEN "" ELSE s[1] \o join(Tail(s))

\* string.ascii_uppercase
ascii_uppercase == <<"A", "B", "C", "D", "E", "F", "G", "H", "I", "J", "K", "L", "M",
                     "N", "O", "P", "Q", "R", "S", "T", "U", "V", "W", "X", "Y", "Z">>

-----------------------------------------------------------------------------
(* generate_user_code and generate_random_car. *)

\* main.py:54-56
generate_user_code == "aaaaaa"

\* main.py:60-67, keys in insertion order
car_brands == <<"Tesla", "BMW", "Audi", "Mercedes", "Porsche", "Volvo">>

car_options(brand) ==
    CASE brand = "Tesla"    -> <<"Model 3", "Model S", "Model X", "Model Y">>
      [] brand = "BMW"      -> <<"i4", "iX", "330e", "530e">>
      [] brand = "Audi"     -> <<"e-tron", "Q4 e-tron", "RS e-tron GT">>
      [] brand = "Mercedes" -> <<"EQS", "EQE", "EQA", "EQB">>
      [] brand = "Porsche"  -> <<"Taycan", "Taycan Cross Turismo">>
      [] brand = "Volvo"    -> <<"C40", "XC40 Recharge">>

colors == <<"Black", "White", "Blue", "Red", "Silver", "Green">>

\* main.py:90  range(10)
HistoryLen == 10

\* main.py:77  [:17]
VinLen == 17

\* PortoGps with other coordinates than the source's
OtherGps == [latitude |-> "38.7222524", longitude |-> "-9.1393366"]

\* main.py:86
PortoGps == [latitude |-> "41.1498379795316", longitude |-> "-8.65870106339955"]

\* main.py:58-106
generate_random_car(n) ==
    LET brand == choice(car_brands, n)
        model == choice(car_options(brand), n + 1)
    IN  [brand |-> brand,
         model |-> model,
         year |-> randint(2020, 2024, n + 2),
         vin |-> join(upper(SubSeq(uuid4hex(n), 1, VinLen))),
         license_plate |-> choice(ascii_uppercase, n + 3) \o ToString(randint(100, 999, n + 4)),
         infotainment_capabilities |-> <<"Navigation", "Bluetooth", "WiFi", "Mobile App">>,
         color |-> choice(colors, n + 5),
         charging_port_location |-> choice(<<"Front", "Rear Left", "Rear Right">>, n + 6),
         battery_capacity |-> uniform(60000, 100000, n + 7),
         maximum_range |-> uniform(250000, 450000, n + 8),
         charging_connector_types |-> <<"Type 2", "CCS">>,
         charging_cable_types |-> <<"Mode 3", "Mode 4">>,
         gps_coordinates |-> PortoGps,
         state_of_charge |-> uniform(0, 100000, n + 9),
         speed |-> uniform(0, 120000, n + 10),
         instant_power_consumption |-> uniform(10000, 30000, n + 11),
         historical_power_consumption |->
             [i \in 1..HistoryLen |-> uniform(10000, 30000, n + 11 + i)],
         range_estimation |-> uniform(150000, 350000, n + 22),
         charging_status |-> choice(<<"Charging", "Not Charging", "Scheduled">>, n + 23),
         charging_power_rate |-> uniform(0, 150000, n + 24),
         battery_temperature |-> uniform(20000, 40000, n + 25),
         error_codes |-> <<>>,
         motor_rpm |-> uniform(0, 7000000, n + 26),
         odometer_reading |-> uniform(0, 50000000, n + 27),
         battery_12v_voltage |-> uniform(11500, 12800, n + 28),
         regenerative_braking_data |->
             [power |-> uniform(0, 50000, n + 29), efficiency |-> uniform(800, 950, n + 30)],
         tire_pressure |->
             [front_left |-> uniform(2200, 2400, n + 31),
              front_right |-> uniform(2200, 2400, n + 32),
              rear_left |-> uniform(2200, 2400, n + 33),
              rear_right |-> uniform(2200, 2400, n + 34)]]

\* a request body that passes the schema of CarData with values no generator
\* produces: year, ranges, list lengths, dict keys and coordinates all differ
OutOfRangeCar ==
    [brand |-> "", model |-> "T", year |-> -1,
     vin |-> "", license_plate |-> "x",
     infotainment_capabilities |-> <<>>,
     color |-> "Pink", charging_port_location |-> "Roof",
     battery_capacity |-> -1000, maximum_range |-> 0,
     charging_connector_types |-> <<>>, charging_cable_types |-> <<"Mode 2">>,
     gps_coordinates |-> [latitude |-> "0.0", longitude |-> "0.0"],
     state_of_charge |-> 250000, speed |-> -5000, instant_power_consumption |-> 0,
     historical_power_consumption |-> <<1000>>,
     range_estimation |-> 0, charging_status |-> "Broken",
     charging_power_rate |-> 0, battery_temperature |-> -40000,
     error_codes |-> <<"P0A80">>,
     motor_rpm |-> 0, odometer_reading |-> 0, battery_12v_voltage |-> 0,
     regenerative_braking_data |-> [power |-> 0],
     tire_pressure |-> [spare |-> 0]]

\* the request bodies of PUT /users/{code}/car/update that are explored
Vehicles == {generate_random_car(n) : n \in Seeds} \cup {OutOfRangeCar}

-----------------------------------------------------------------------------
(* The users and the handlers, as functions of the store. *)

\* main.py:129-131
names == <<"John Doe", "Jane Smith", "Alice Johnson", "Bob Wilson">>
languages == <<"English", "Spanish", "French", "German">>
nationalities == <<"US", "UK", "FR", "DE", "ES">>

\* main.py:110-118  the UserData of prepopulate_user
initial_user_data(n) ==
    [code |-> generate_user_code,
     name |-> "John Doe",
     age |-> 30,
     language |-> "English",
     nationality |-> "US",
     phone_number |-> "+11234567890",
     car |-> generate_random_car(n)]

\* prepopulate_user with the store assignment lost
prepopulate_user_NoStore(db, n) == db

\* main.py:108-119  users_db[user_data.code] = user_data
prepopulate_user(db, n) ==
    LET user_data == initial_user_data(n)
    IN  DictSet(db, user_data.code, user_data)

\* main.py:133-141  the UserData of create_user
new_user_data(n) ==
    [code |-> generate_user_code,
     name |-> choice(names, n),
     age |-> randint(18, 80, n + 1),
     language |-> choice(languages, n + 2),
     nationality |-> choice(nationalities, n + 3),
     phone_number |->
         "+" \o ToString(randint(1, 99, n + 4))
             \o ToString(randint(100000000, 999999999, n + 5)),
     car |-> generate_random_car(n + 6)]

\* HTTPException(status_code=404, detail="User not found")
NotFound == [status |-> 404, body |-> [detail |-> "User not found"]]

\* an uncaught KeyError of a handler: the runtime answers 500
KeyError == [status |-> 500, body |-> [detail |-> "Internal Server Error"]]

\* create_user with the store assignment lost: the user is returned, not stored
create_user_NoStore(db, n) ==
    [db |-> db, status |-> 200, body |-> new_user_data(n)]

\* create_user storing under the user's name instead of its code
create_user_KeyedByName(db, n) ==
    LET user_data == new_user_data(n)
    IN  [db |-> DictSet(db, user_data.name, user_data),
         status |-> 200, body |-> user_data]

\* main.py:126-144
create_user(db, n) ==
    LET user_data == new_user_data(n)
    IN  [db |-> DictSet(db, user_data.code, user_data),
         status |-> 200, body |-> user_data]

\* get_user with the membership test on the wrong thing: any code finds a user
get_user_AnyCode(db, code) ==
    IF Len(db) = 0
    THEN NotFound
    ELSE [status |-> 200, body |-> db[1][2]]

\* main.py:146-151
get_user(db, code) ==
    IF ~DictHas(db, code)
    THEN NotFound
    ELSE [status |-> 200, body |-> DictGet(db, code)]

\* list_users dropping the last entry
list_users_DropsLast(db) ==
    [status |-> 200, body |-> [i \in 1..(Len(db) - 1) |-> db[i][2]]]

\* main.py:153-156
list_users(db) == [status |-> 200, body |-> DictValues(db)]

\* main.py:161  `code not in users_db`
update_missing(db, code) == ~DictHas(db, code)

\* update_write with the assignment lost: the user is returned unchanged
update_write_NoWrite(db, code, car_data) ==
    IF ~DictHas(db, code)
    THEN [db |-> db] @@ KeyError
    ELSE [db |-> db, status |-> 200, body |-> DictGet(db, code)]

\* main.py:163-164  users_db[code].car = car_data; return users_db[code]
\* (the subscript raises KeyError when the key is absent)
update_write(db, code, car_data) ==
    IF ~DictHas(db, code)
    THEN [db |-> db] @@ KeyError
    ELSE LET db2 == DictSet(db, code, [DictGet(db, code) EXCEPT !.car = car_data])
         IN  [db |-> db2, status |-> 200, body |-> DictGet(db2, code)]

\* update_car_data without the membership test of line 161
update_car_data_NoCheck(db, code, car_data) == update_write(db, code, car_data)

\* main.py:158-164
update_car_data(db, code, car_data) ==
    IF update_missing(db, code)
    THEN [db |-> db] @@ NotFound
    ELSE update_write(db, code, car_data)

-----------------------------------------------------------------------------
(* The state machine: the startup hook, then the handlers, one at a time. *)

NoResponse == [op |-> "none", code |-> "", status |-> 0, body |-> <<>>]

NothingWritten == [user_by |-> "none", car_by |-> "none"]

IdleTask == [pc |-> "idle"]

Init ==
    /\ users_db = <<>>
    /\ phase = "loaded"
    /\ response = NoResponse
    /\ prev_response = NoResponse
    /\ written = NothingWritten
    /\ tasks = [t \in Tasks |-> IdleTask]

\* a handler completes with result r
Complete(op, code, r) ==
    /\ response' = [op |-> op, code |-> code, status |-> r.status, body |-> r.body]
    /\ prev_response' = response

\* main.py:121-124  runs once, before the first request is served
startup_event ==
    /\ phase = "loaded"
    /\ \E n \in Seeds :
          /\ users_db' = prepopulate_user(users_db, n)
          /\ written' = [user_by |-> "startup", car_by |-> "startup",
                         car |-> generate_random_car(n)]
    /\ phase' = "serving"
    /\ UNCHANGED <<response, prev_response, tasks>>

\* POST /users/create
CreateUser ==
    /\ phase = "serving"
    /\ \E n \in Seeds :
          LET r == create_user(users_db, n)
          IN  /\ users_db' = r.db
              /\ Complete("create", r.body.code, r)
              /\ written' = [user_by |-> "create", car_by |-> "create",
                             car |-> r.body.car]
    /\ UNCHANGED <<phase, tasks>>

\* GET /users/{code}
GetUser(code) ==
    /\ phase = "serving"
    /\ Complete("get", code, get_user(users_db, code))
    /\ UNCHANGED <<users_db, phase, written, tasks>>

\* GET /users
ListUsers ==
    /\ phase = "serving"
    /\ Complete("list", "", list_users(users_db))
    /\ UNCHANGED <<users_db, phase, written, tasks>>

\* PUT /users/{code}/car/update
UpdateCarData(code, car_data) ==
    /\ phase = "serving"
    /\ LET r == update_car_data(users_db, code, car_data)
       IN  /\ users_db' = r.db
           /\ Complete("update", code, r)
           /\ written' = IF r.status = 200
                         THEN [written EXCEPT !.car_by = "update", !.car = car_data]
                         ELSE written
    /\ UNCHANGED <<phase, tasks>>

Next ==
    \/ startup_event
    \/ CreateUser
    \/ \E code \in Codes : GetUser(code)
    \/ ListUsers
    \/ \E code \in Codes, car_data \in Vehicles : UpdateCarData(code, car_data)

Spec == Init /\ [][Next]_vars

-----------------------------------------------------------------------------
(* The store as the claims see it: which codes are keys, and what is stored *)
(* under a key, read off the entries themselves.                            *)

StoreKeys(db) == {e[1] : e \in {db[i] : i \in 1..Len(db)}}

StoredUnder(db, c) == {db[i][2] : i \in {j \in 1..Len(db) : db[j][1] = c}}

-----------------------------------------------------------------------------
(* C1: get-by-code(c) returns the user stored under c when c is a key of   *)
(* the store and signals not-found, HTTP 404, when c is not a key; never a *)
(* user for an absent code, never not-found for a present one.             *)
C1_GetByCode ==
    response.op = "get" =>
        IF response.code \in StoreKeys(users_db)
        THEN /\ response.status = 200
             /\ StoredUnder(users_db, response.code) = {response.body}
        ELSE /\ response.status = 404
             /\ response.body = [detail |-> "User not found"]

\* a get of an absent code right after a get of a present one
C1_Witness ==
    /\ prev_response.op = "get" /\ prev_response.status = 200
    /\ response.op = "get" /\ response.status = 404

(* C2: after create() returns a user u with code c, the get-by-code(c)     *)
(* issued next returns a user equal to u in every field, the car included. *)
C2_CreateThenGet ==
    (/\ prev_response.op = "create"
     /\ response.op = "get"
     /\ response.code = prev_response.body.code)
        => /\ response.status = 200
           /\ response.body = prev_response.body

\* a create of a user other than the seeded one, then the get of its code
C2_Witness ==
    /\ prev_response.op = "create"
    /\ prev_response.body.name # "John Doe"
    /\ response.op = "get"
    /\ response.code = prev_response.body.code
    /\ response.status = 200

(* C3: for a code c in the store and any vehicle V, update-car(c, V)       *)
(* succeeds, returns the updated user, and a following get-by-code(c)      *)
(* returns a user whose car is V and whose other fields are as before.     *)
C3_UpdateCar ==
    [][\A c \in Codes, V \in Vehicles :
          (c \in StoreKeys(users_db) /\ UpdateCarData(c, V)) =>
              \E before \in StoredUnder(users_db, c) :
                 LET got == get_user(users_db', c)
                 IN  /\ response'.status = 200
                     /\ got.status = 200
                     /\ response'.body = got.body
                     /\ got.body.car = V
                     /\ got.body = [before EXCEPT !.car = V]
                     /\ StoredUnder(users_db', c) = {got.body}]_vars

\* an update with the out-of-range vehicle has succeeded on a created user
C3_Witness ==
    /\ response.op = "update" /\ response.status = 200
    /\ response.body.car = OutOfRangeCar
    /\ written.user_by = "create"

(* C4: for a code c not in the store and any vehicle V, update-car(c, V)   *)
(* signals not-found, HTTP 404, and leaves the store as it was.            *)
C4_UpdateMissing ==
    [][\A c \in Codes, V \in Vehicles :
          (c \notin StoreKeys(users_db) /\ UpdateCarData(c, V)) =>
              /\ response'.status = 404
              /\ response'.body = [detail |-> "User not found"]
              /\ users_db' = users_db]_vars

\* an update of an absent code has been answered
C4_Witness ==
    /\ response.op = "update"
    /\ response.code \notin StoreKeys(users_db)
    /\ response.status = 404

(* C5: list-all() always succeeds, returns every stored user exactly once  *)
(* and no other user, and leaves the store unchanged.                      *)
ListsStore(r, db) ==
    /\ r.status = 200
    /\ Len(r.body) = Len(db)
    /\ \A c \in StoreKeys(db) :
          Cardinality({i \in 1..Len(r.body) :
                          r.body[i].code = c /\ r.body[i] \in StoredUnder(db, c)}) = 1
    /\ \A i \in 1..Len(r.body) : r.body[i].code \in StoreKeys(db)

C5_ListAll ==
    [][ListUsers => (users_db' = users_db /\ ListsStore(response', users_db'))]_vars

\* a list has been answered after a create and an update
C5_Witness ==
    /\ response.op = "list" /\ response.status = 200
    /\ Len(response.body) = 1
    /\ written.user_by = "create" /\ written.car_by = "update"

(* C6: every entry of the store has a non-empty code that equals the key   *)
(* under which it is stored.                                               *)
C6_KeyIsCode ==
    \A i \in 1..Len(users_db) :
        /\ users_db[i][2].code = users_db[i][1]
        /\ users_db[i][2].code # ""

\* the store after the seeding, a create and an update
C6_Witness ==
    /\ Len(users_db) >= 1
    /\ written.user_by = "create" /\ written.car_by = "update"

(* C7: with the fixed code every create overwrites the entry of "aaaaaa":  *)
(* after startup the store holds exactly one entry, under "aaaaaa".        *)
C7_OneEntry ==
    phase = "serving" =>
        /\ Len(users_db) = 1
        /\ StoreKeys(users_db) = {"aaaaaa"}

\* two creates in a row, of different users
C7_Witness ==
    /\ prev_response.op = "create" /\ response.op = "create"
    /\ prev_response.body # response.body
    /\ Len(users_db) = 1

(* C8: the seeding runs once and before any handler: no handler observes   *)
(* the empty store, and a list-all() after startup with no create in       *)
(* between returns exactly one user, John Doe, 30, English, US, under the  *)
(* fixed code.                                                             *)
C8_Bootstrap ==
    /\ phase = "loaded" => (users_db = <<>> /\ response = NoResponse)
    /\ phase = "serving" => (~ENABLED startup_event /\ Len(users_db) >= 1)
    /\ (response.op = "list" /\ written.user_by = "startup") =>
          /\ Len(response.body) = 1
          /\ response.body[1].name = "John Doe"
          /\ response.body[1].age = 30
          /\ response.body[1].language = "English"
          /\ response.body[1].nationality = "US"
          /\ response.body[1].code = "aaaaaa"
          /\ StoreKeys(users_db) = {"aaaaaa"}

\* a list answered after startup and an update, with no create
C8_Witness ==
    /\ response.op = "list"
    /\ written.user_by = "startup" /\ written.car_by = "update"

(* C9: every vehicle of the random generator, hence the car of every user  *)
(* stored by the seeding or a create until an update replaces it, has 10   *)
(* historical power consumption entries, no error codes, the four tire     *)
(* positions, and the fixed GPS coordinates.                               *)
Generated(car) ==
    /\ Len(car.historical_power_consumption) = 10
    /\ car.error_codes = <<>>
    /\ DOMAIN car.tire_pressure = {"front_left", "front_right", "rear_left", "rear_right"}
    /\ DOMAIN car.gps_coordinates = {"latitude", "longitude"}
    /\ car.gps_coordinates.latitude = "41.1498379795316"
    /\ car.gps_coordinates.longitude = "-8.65870106339955"

C9_GeneratedCar ==
    /\ \A n \in 1..(MaxSeed + 6) : Generated(generate_random_car(n))
    /\ written.car_by \in {"startup", "create"} =>
          \A u \in StoredUnder(users_db, "aaaaaa") : Generated(u.car)
    /\ response.op = "create" => Generated(response.body.car)

\* a created user is stored with its generated car
C9_Witness ==
    /\ written.car_by = "create"
    /\ response.op = "create"
    /\ StoredUnder(users_db, "aaaaaa") = {response.body}

-----------------------------------------------------------------------------
(* Concurrent dispatch.  Each task serves one request.  create_user,       *)
(* get_user and list_users run in one step; update_car_data runs in two:   *)
(* the membership test of line 161, then the assignment and the read-back  *)
(* of lines 163-164, with any step of any other task in between.           *)

Done(t, op) == tasks' = [tasks EXCEPT ![t] = [pc |-> "done", op |-> op]]

ConcCreate(t) ==
    /\ phase = "serving" /\ tasks[t].pc = "idle"
    /\ \E n \in Seeds :
          LET r == create_user(users_db, n)
          IN  /\ users_db' = r.db
              /\ Complete("create", r.body.code, r)
              /\ written' = [user_by |-> "create", car_by |-> "create",
                             car |-> r.body.car]
    /\ Done(t, "create")
    /\ UNCHANGED phase

ConcGet(t, code) ==
    /\ phase = "serving" /\ tasks[t].pc = "idle"
    /\ Complete("get", code, get_user(users_db, code))
    /\ Done(t, "get")
    /\ UNCHANGED <<users_db, phase, written>>

ConcList(t) ==
    /\ phase = "serving" /\ tasks[t].pc = "idle"
    /\ Complete("list", "", list_users(users_db))
    /\ Done(t, "list")
    /\ UNCHANGED <<users_db, phase, written>>

\* main.py:161-162
ConcUpdateCheck(t, code, car_data) ==
    /\ phase = "serving" /\ tasks[t].pc = "idle"
    /\ IF update_missing(users_db, code)
       THEN /\ Complete("update", code, NotFound)
            /\ Done(t, "update")
       ELSE /\ tasks' = [tasks EXCEPT ![t] = [pc |-> "checked", op |-> "update",
                                              code |-> code, car_data |-> car_data]]
            /\ UNCHANGED <<response, prev_response>>
    /\ UNCHANGED <<users_db, phase, written>>

\* main.py:163-164
ConcUpdateWrite(t) ==
    /\ phase = "serving" /\ tasks[t].pc = "checked"
    /\ LET r == update_write(users_db, tasks[t].code, tasks[t].car_data)
       IN  /\ users_db' = r.db
           /\ Complete("update", tasks[t].code, r)
           /\ written' = IF r.status = 200
                         THEN [written EXCEPT !.car_by = "update",
                                              !.car = tasks[t].car_data]
                         ELSE written
    /\ Done(t, "update")
    /\ UNCHANGED phase

NextConc ==
    \/ startup_event
    \/ \E t \in Tasks : ConcCreate(t)
    \/ \E t \in Tasks, code \in Codes : ConcGet(t, code)
    \/ \E t \in Tasks : ConcList(t)
    \/ \E t \in Tasks, code \in Codes, car_data \in Vehicles :
          ConcUpdateCheck(t, code, car_data)
    \/ \E t \in Tasks : ConcUpdateWrite(t)

SpecConc == Init /\ [][NextConc]_vars

(* C10: with update-car in two steps, interleaved with the other handlers: *)
(* an update whose membership test passed finds its key present when it    *)
(* writes and reads back, and completes with a user; the store invariants  *)
(* (key equals code, exactly the key "aaaaaa") hold in every state; once   *)
(* all handlers have completed the stored car is that of the last write.   *)
C10_Interleaved ==
    /\ \A t \in Tasks :
          tasks[t].pc = "checked" => tasks[t].code \in StoreKeys(users_db)
    /\ (response.op = "update" /\ response.code \in StoreKeys(users_db)) =>
          /\ response.status = 200
          /\ response.body.code = response.code
    /\ response.status # 500
    /\ \A i \in 1..Len(users_db) : users_db[i][2].code = users_db[i][1]
    /\ phase = "serving" => (Len(users_db) = 1 /\ StoreKeys(users_db) = {"aaaaaa"})
    /\ (phase = "serving" /\ \A t \in Tasks : tasks[t].pc = "done") =>
          \A u \in StoredUnder(users_db, "aaaaaa") : u.car = written.car

\* all handlers have completed, a create and two updates among them, the
\* update that wrote last having written a car other than the created one
C10_Witness ==
    /\ \A t \in Tasks : tasks[t].pc = "done"
    /\ \E t1, t2, t3 \in Tasks :
          /\ t1 # t2
          /\ tasks[t1].op = "update" /\ tasks[t2].op = "update"
          /\ tasks[t3].op = "create"
    /\ response.op = "update" /\ response.status = 200
    /\ prev_response.op = "update" /\ prev_response.status = 200
    /\ prev_response.body.car # response.body.car
    /\ written.user_by = "create"

====
